---- MODULE Spec2Model ----
(***************************************************************************)
(* State-machine model of the two entry points of                          *)
(* sage-numerical-backends-coin:                                           *)
(*   - check_sage_testsuite.py : forces the host's default MIP solver to   *)
(*     this backend and runs a curated subset of the host's doctests;      *)
(*   - setup.py                : discovers libCbc through pkgconfig,       *)
(*     probes two host features, builds the extension, and (command        *)
(*     "test") runs SageTest.run_tests.                                    *)
(* One behaviour is one run of one of the two scripts.  Each statement     *)
(* that calls into the host (imports, default_mip_solver, pkgconfig,       *)
(* cythonize, the doctest runner, os.system) is an action whose result is  *)
(* drawn from the outcomes the host can produce; an exception that no      *)
(* handler of the script catches ends the interpreter with status 1.       *)
(***************************************************************************)
EXTENDS Integers, Sequences, FiniteSets, TLC

\* ------------------------------------------------------------------ bounds
\* Largest value the doctest runner / the shell command may report.
MaxErr == 2
\* Largest number of *.py entries a numerical/ directory is given.
MaxGlob == 1

VARIABLES
  \* ---- the interpreter process
  script,          \* which entry point is run
  pc,              \* next statement (source line) to execute, or "done"
  exitcode,        \* process exit status, -1 while running
  raisedAt,        \* statement at which an uncaught exception was raised
  stderr,          \* messages printed to sys.stderr
  \* ---- check_sage_testsuite.py
  sys_modules,     \* sys.modules['sage.numerical.backends.coin_backend']
  backends_attr,   \* sage.numerical.backends.coin_backend (attribute)
  default_solver,  \* host's default MIP solver
  fs,              \* host file system: directory -> names in its numerical/
  cwd,             \* current working directory
  abs_file,        \* abs_file
  files,           \* files
  err,             \* err
  hist,            \* record of the calls made so far (counts, arguments, results)
  \* ---- setup.py
  command,         \* setup.py command given on the command line
  sage_incl,       \* value of sage_include_directories() on this host
  cbc_pc,          \* cbc_pc
  cbc_libs,        \* cbc_libs
  cbc_library_dirs,\* cbc_library_dirs
  cbc_include_dirs,\* cbc_include_dirs
  ext_modules,     \* ext_modules
  compile_time_env,\* compile_time_env
  errno,           \* errno of SageTest.run_tests
  shist            \* record of the calls made so far by setup.py

procVars  == <<script, pc, exitcode, raisedAt, stderr>>
checkVars == <<sys_modules, backends_attr, default_solver, fs, cwd, abs_file,
               files, err, hist>>
setupVars == <<command, sage_incl, cbc_pc, cbc_libs, cbc_library_dirs,
               cbc_include_dirs, ext_modules, compile_time_env, errno, shist>>
vars == <<procVars, checkVars, setupVars>>

\* ------------------------------------------------------- interpreter steps
\* Fall through to the statement at label l.
Goto(l) == /\ pc' = l
           /\ UNCHANGED <<script, exitcode, raisedAt, stderr>>

\* Fall through to the statement at label l after print(msg, file=sys.stderr).
PrintGoto(msg, l) == /\ pc' = l
                     /\ stderr' = Append(stderr, msg)
                     /\ UNCHANGED <<script, exitcode, raisedAt>>

\* sys.exit(n)
SysExit(n) == /\ pc' = "done"
              /\ exitcode' = n
              /\ UNCHANGED <<script, raisedAt, stderr>>

\* print(msg, file=sys.stderr); sys.exit(n)
PrintSysExit(msg, n) == /\ pc' = "done"
                        /\ exitcode' = n
                        /\ stderr' = Append(stderr, msg)
                        /\ UNCHANGED <<script, raisedAt>>

\* An exception propagates out of the statement at pc; neither script has a
\* handler around it, so the interpreter exits with status 1.
Uncaught == /\ pc' = "done"
            /\ exitcode' = 1
            /\ raisedAt' = pc
            /\ UNCHANGED <<script, stderr>>

\* print(msg, file=sys.stderr), then an exception no handler catches.
PrintUncaught(msg) == /\ pc' = "done"
                      /\ exitcode' = 1
                      /\ raisedAt' = pc
                      /\ stderr' = Append(stderr, msg)
                      /\ UNCHANGED script

\* ------------------------------------------------------------------- paths
\* A path is a sequence of components; an absolute path starts with "/".
IsAbs(p) == Len(p) > 0 /\ p[1] = "/"

\* os.path.join(a, b)
PathJoin(a, b) == IF IsAbs(b) THEN b ELSE a \o b

\* os.path.abspath(p) with the process in directory c
AbsPath(c, p) == PathJoin(c, p)

ScriptName == <<"check_sage_testsuite.py">>
SAGE_LIB   == <<"/", "sage_lib">>
SageDir    == PathJoin(SAGE_LIB, <<"sage">>)
RepoDir    == <<"/", "repo">>
OtherDir   == <<"/", "tmp">>
Dirs       == {RepoDir, OtherDir, SageDir}

\* names that may exist in a directory's numerical/ subdirectory
FileNames == {"mip.py", "sdp.py", "linear_functions.pyx", "README.txt"}
Suffix(f) == CASE f \in {"mip.py", "sdp.py"} -> "py"
               [] f = "linear_functions.pyx" -> "pyx"
               [] OTHER -> "txt"

\* the directory listings a host may have
Listings ==
  {L \in SUBSET FileNames : Cardinality({f \in L : Suffix(f) = "py"}) <= MaxGlob}

\* all orderings of a finite set, as sequences without repetition
Orderings(S) ==
  {s \in [1..Cardinality(S) -> S] : \A i, j \in 1..Cardinality(S) : s[i] = s[j] => i = j}

\* glob.glob("numerical/*.<suffix>") with the process in directory c: the
\* matching names, relative to c, in the order the directory yields them.
Glob(c, suffix) ==
  LET hit == {f \in fs[c] : Suffix(f) = suffix}
  IN  {[i \in 1..Len(o) |-> <<"numerical", o[i]>>] : o \in Orderings(hit)}

\* files, lines 23-31
CuratedFiles ==
  << <<"coding">>,
     <<"combinat", "designs">>, <<"combinat", "integer_vector.py">>,
     <<"combinat", "posets">>,
     <<"game_theory">>,
     <<"geometry", "polyhedron", "base.py">>, <<"geometry", "cone.py">>,
     <<"graphs">>,
     <<"topology", "simplicial_complex.py">>,
     <<"knots">>,
     <<"matroids">>,
     <<"sat">> >>

\* The absolute files a DocTestController started in directory c with the
\* argument list args runs (options.abspath = True).
Targets(c, args) == {AbsPath(c, args[i]) : i \in 1..Len(args)}

ErrCodes == 0..MaxErr

\* The backend MixedIntegerLinearProgram() instantiates on the host.
BackendInUse == IF default_solver = "Coin" THEN sys_modules ELSE default_solver

\* A doctest run not made yet / the calls made at interpreter start.
NoRun == [n |-> 0, targets |-> {}, result |-> -1]
NoCalls == [cwd0 |-> <<>>, patch |-> 0, dms |-> 0, chdir |-> 0, globcwd |-> <<>>,
            verify |-> NoRun, subset |-> NoRun, order |-> <<>>]

\* The values os.system can return: -1 (no child), 0, the wait status of a
\* child that exited with code c (c * 256) or was killed by signal s (s).
OsStatus == {-1, 0} \cup {256 * c : c \in 1..MaxErr} \cup (1..MaxErr)

\* Python dictionaries are functions from keys to values.
EmptyDict == [k \in {} |-> <<>>]

\* State of setup.py's variables before setup.py assigns them.
SetupIdle ==
  /\ cbc_pc = EmptyDict
  /\ cbc_libs = <<>>
  /\ cbc_library_dirs = <<>>
  /\ cbc_include_dirs = <<>>
  /\ ext_modules = <<>>
  /\ compile_time_env = EmptyDict
  /\ errno = 0
  /\ shist = [parse |-> "none", parsed |-> EmptyDict, probe1 |-> "none", probe2 |-> "none",
              final_env |-> EmptyDict, final_ext |-> <<>>, setup |-> 0,
              system |-> 0]

\* State of check_sage_testsuite.py's variables at interpreter start: nothing
\* of the host is imported, so the registry entry is absent.
CheckIdle ==
  /\ sys_modules = "absent"
  /\ backends_attr = "absent"
  /\ default_solver = "Glpk"
  /\ abs_file = <<>>
  /\ files = <<>>
  /\ err = 0

InitCheck ==
  /\ script = "check_sage_testsuite.py"
  /\ pc = "c11"
  /\ cwd \in Dirs
  /\ fs \in {f \in [Dirs -> Listings] :
               /\ f[OtherDir] = {}
               /\ f[RepoDir] \in {{}, {"mip.py"}}}
  /\ hist = [NoCalls EXCEPT !.cwd0 = cwd]
  /\ CheckIdle
  /\ command = "none" /\ sage_incl = <<>>
  /\ SetupIdle

\* python setup.py <command>, run in the repository.
InitSetup ==
  /\ script = "setup.py"
  /\ pc = "s06"
  /\ command \in {"build_ext", "test"}
  /\ sage_incl \in {<<"/sage/include">>, <<"/sage/include", "/numpy/include">>}
  /\ cwd = RepoDir
  /\ fs = [d \in Dirs |-> {}]
  /\ hist = [NoCalls EXCEPT !.cwd0 = cwd]
  /\ CheckIdle
  /\ SetupIdle

Init ==
  /\ exitcode = -1
  /\ raisedAt = "none"
  /\ stderr = <<>>
  /\ \/ InitCheck
     \/ InitSetup

\* ------------------------------------------------ check_sage_testsuite.py
\* line 11: import sage_numerical_backends_coin.coin_backend,
\*          sage.numerical.backends, sys   (ImportError is not caught)
C11_Import ==
  /\ pc = "c11"
  /\ \/ Goto("c12")
     \/ Uncaught
  /\ UNCHANGED <<checkVars, setupVars>>

\* (variant: only the attribute of the package is rebound)
C12_Patch_AttrOnly ==
  /\ pc = "c12"
  /\ backends_attr' = "ours"
  /\ hist' = [hist EXCEPT !.patch = @ + 1, !.order = Append(@, "patch")]
  /\ Goto("c14")
  /\ UNCHANGED <<sys_modules, default_solver, fs, cwd, abs_file, files, err,
                 setupVars>>

\* line 12: sys.modules[...] = backends.coin_backend = coin_backend
C12_Patch ==
  /\ pc = "c12"
  /\ sys_modules' = "ours"
  /\ backends_attr' = "ours"
  /\ hist' = [hist EXCEPT !.patch = @ + 1, !.order = Append(@, "patch")]
  /\ Goto("c14")
  /\ UNCHANGED <<default_solver, fs, cwd, abs_file, files, err, setupVars>>

\* line 14: from sage.numerical.backends.generic_backend import default_mip_solver
C14_Import ==
  /\ pc = "c14"
  /\ \/ Goto("c15")
     \/ Uncaught
  /\ UNCHANGED <<checkVars, setupVars>>

\* line 15: default_mip_solver('COIN').  The host either raises (solver not
\* available), or returns; whether the returned call changed the host's
\* default is what the script verifies afterwards.
C15_DefaultMipSolver ==
  /\ pc = "c15"
  /\ hist' = [hist EXCEPT !.dms = @ + 1, !.order = Append(@, "dms")]
  /\ \/ /\ Uncaught
        /\ UNCHANGED default_solver
     \/ /\ Goto("c17")
        /\ default_solver' \in {"Coin", default_solver}
  /\ UNCHANGED <<sys_modules, backends_attr, fs, cwd, abs_file, files, err,
                 setupVars>>

\* lines 17-18: import DocTestController, DocTestDefaults; options = ...
C17_Options ==
  /\ pc = "c17"
  /\ \/ Goto("c21")
     \/ Uncaught
  /\ UNCHANGED <<checkVars, setupVars>>

\* (variant: the name is kept relative)
C21_AbsFile_Relative ==
  /\ pc = "c21"
  /\ abs_file' = ScriptName
  /\ Goto("c22")
  /\ UNCHANGED <<sys_modules, backends_attr, default_solver, fs, cwd, files,
                 err, hist, setupVars>>

\* lines 20-21: abs_file = os.path.abspath("check_sage_testsuite.py")
C21_AbsFile ==
  /\ pc = "c21"
  /\ abs_file' = AbsPath(cwd, ScriptName)
  /\ Goto("c22")
  /\ UNCHANGED <<sys_modules, backends_attr, default_solver, fs, cwd, files,
                 err, hist, setupVars>>

\* line 22: os.chdir(os.path.join(sage.env.SAGE_LIB, 'sage'))
C22_Chdir ==
  /\ pc = "c22"
  /\ \/ /\ Goto("c23")
        /\ cwd' = PathJoin(SAGE_LIB, <<"sage">>)
        /\ hist' = [hist EXCEPT !.chdir = @ + 1, !.order = Append(@, "chdir")]
     \/ /\ Uncaught
        /\ UNCHANGED <<cwd, hist>>
  /\ UNCHANGED <<sys_modules, backends_attr, default_solver, fs, abs_file,
                 files, err, setupVars>>

\* lines 23-33: files = [...]; files += glob("numerical/*.py") + glob("numerical/*.pyx")
C23_Files ==
  /\ pc = "c23"
  /\ \E py \in Glob(cwd, "py"), pyx \in Glob(cwd, "pyx") :
        files' = CuratedFiles \o (py \o pyx)
  /\ hist' = [hist EXCEPT !.globcwd = cwd, !.order = Append(@, "glob")]
  /\ Goto("c36")
  /\ UNCHANGED <<sys_modules, backends_attr, default_solver, fs, cwd, abs_file,
                 err, setupVars>>

\* lines 36-37: DC = DocTestController(options, [abs_file]); err = DC.run()
\* The script's own doctest passes only if the host instantiates this
\* package's backend.
C36_Verify ==
  /\ pc = "c36"
  /\ \/ /\ \E e \in ErrCodes :
             /\ e = 0 => BackendInUse = "ours"
             /\ err' = e
             /\ hist' = [hist EXCEPT
                   !.verify = [n |-> @.n + 1, targets |-> Targets(cwd, <<abs_file>>),
                               result |-> e],
                   !.order = Append(@, "verify")]
        /\ Goto("c38")
     \/ /\ Uncaught
        /\ hist' = [hist EXCEPT
              !.verify = [n |-> @.n + 1, targets |-> Targets(cwd, <<abs_file>>),
                          result |-> -1],
              !.order = Append(@, "verify")]
        /\ UNCHANGED err
  /\ UNCHANGED <<sys_modules, backends_attr, default_solver, fs, cwd, abs_file,
                 files, setupVars>>

\* (variant: the verification failure exits with the test-failure code)
C38_CheckVerify_Exit1 ==
  /\ pc = "c38"
  /\ IF err # 0
       THEN PrintSysExit("Error: Setting the default solver did not work", 1)
       ELSE Goto("c43")
  /\ UNCHANGED <<checkVars, setupVars>>

\* (variant: the verification failure is reported but does not exit)
C38_CheckVerify_NoExit ==
  /\ pc = "c38"
  /\ IF err # 0
       THEN PrintGoto("Error: Setting the default solver did not work", "c43")
       ELSE Goto("c43")
  /\ UNCHANGED <<checkVars, setupVars>>

\* lines 38-40: if err != 0: print(...); sys.exit(2)
C38_CheckVerify ==
  /\ pc = "c38"
  /\ IF err # 0
       THEN PrintSysExit("Error: Setting the default solver did not work", 2)
       ELSE Goto("c43")
  /\ UNCHANGED <<checkVars, setupVars>>

\* lines 43-44: DC = DocTestController(options, files); err = DC.run()
C43_Subset ==
  /\ pc = "c43"
  /\ \/ /\ \E e \in ErrCodes :
             /\ err' = e
             /\ hist' = [hist EXCEPT
                   !.subset = [n |-> @.n + 1, targets |-> Targets(cwd, files),
                               result |-> e],
                   !.order = Append(@, "subset")]
        /\ Goto("c45")
     \/ /\ Uncaught
        /\ hist' = [hist EXCEPT
              !.subset = [n |-> @.n + 1, targets |-> Targets(cwd, files),
                          result |-> -1],
              !.order = Append(@, "subset")]
        /\ UNCHANGED err
  /\ UNCHANGED <<sys_modules, backends_attr, default_solver, fs, cwd, abs_file,
                 files, setupVars>>

\* (variant: the result of the subset run is ignored)
C45_CheckSubset_Ignored ==
  /\ pc = "c45"
  /\ Goto("c48")
  /\ UNCHANGED <<checkVars, setupVars>>

\* lines 45-46: if err != 0: sys.exit(1)
C45_CheckSubset ==
  /\ pc = "c45"
  /\ IF err # 0 THEN SysExit(1) ELSE Goto("c48")
  /\ UNCHANGED <<checkVars, setupVars>>

\* line 48: sys.exit(0)
C48_Exit ==
  /\ pc = "c48"
  /\ SysExit(0)
  /\ UNCHANGED <<checkVars, setupVars>>

CheckNext ==
  \/ C11_Import \/ C12_Patch \/ C14_Import \/ C15_DefaultMipSolver
  \/ C17_Options \/ C21_AbsFile \/ C22_Chdir \/ C23_Files
  \/ C36_Verify \/ C38_CheckVerify \/ C43_Subset \/ C45_CheckSubset
  \/ C48_Exit

\* ---------------------------------------------------------------- setup.py
\* d[k] on a collections.defaultdict(list): the stored value, [] if absent
DictValue(d, k) == IF k \in DOMAIN d THEN d[k] ELSE <<>>

\* ... and the dictionary afterwards: a missing key is inserted with []
DictTouch(d, k) == IF k \in DOMAIN d THEN d ELSE (k :> <<>>) @@ d

\* What pkgconfig.parse('cbc') may return: a full description, one without
\* -L/-I flags (library in the default search path), or nothing at all.
PkgResults ==
  { [libraries |-> <<"CbcSolver", "Cbc">>, library_dirs |-> <<"/opt/coin/lib">>,
     include_dirs |-> <<"/opt/coin/include/coin">>],
    [libraries |-> <<"Cbc", "Clp">>],
    EmptyDict }

\* line 38: defaultdict(list, {'libraries': ['Cbc']})
FallbackPc == [libraries |-> <<"Cbc">>]

\* (variant: the solver's include directories come first)
Extension_SolverFirst(libs, host_incl, incl, libdirs) ==
  [name |-> "sage.numerical.backends.coin_backend",
   sources |-> <<"sage/numerical/backends/coin_backend.pyx">>,
   libraries |-> libs,
   include_dirs |-> incl \o host_incl,
   library_dirs |-> libdirs,
   extra_compile_args |-> <<"-std=c++11">>]

\* lines 47-54: Extension('sage.numerical.backends.coin_backend', ...)
Extension(libs, host_incl, incl, libdirs) ==
  [name |-> "sage.numerical.backends.coin_backend",
   sources |-> <<"sage/numerical/backends/coin_backend.pyx">>,
   libraries |-> libs,
   include_dirs |-> host_incl \o incl,
   library_dirs |-> libdirs,
   extra_compile_args |-> <<"-std=c++11">>]

\* lines 6-14: imports of setuptools, Cython, sage.env
S06_Imports ==
  /\ pc = "s06"
  /\ \/ Goto("s32")
     \/ Uncaught
  /\ UNCHANGED <<checkVars, setupVars>>

\* line 32: import pkgconfig
S32_ImportPkgconfig ==
  /\ pc = "s32"
  /\ \/ Goto("s35")
     \/ Uncaught
  /\ UNCHANGED <<checkVars, setupVars>>

\* (variant: no handler around the query)
S35_Parse_NoHandler ==
  /\ pc = "s35"
  /\ \/ /\ \E r \in PkgResults :
             /\ cbc_pc' = r
             /\ shist' = [shist EXCEPT !.parse = "ok", !.parsed = r]
        /\ Goto("s40")
     \/ /\ UNCHANGED cbc_pc
        /\ shist' = [shist EXCEPT !.parse = "PackageNotFoundError"]
        /\ Uncaught
     \/ /\ UNCHANGED cbc_pc
        /\ shist' = [shist EXCEPT !.parse = "tool_unavailable"]
        /\ Uncaught
  /\ UNCHANGED <<command, sage_incl, cbc_libs, cbc_library_dirs,
                 cbc_include_dirs, ext_modules, compile_time_env, errno,
                 checkVars>>

\* lines 34-38: try: cbc_pc = pkgconfig.parse('cbc')
\*              except pkgconfig.PackageNotFoundError: cbc_pc = defaultdict(...)
\* parse returns, raises PackageNotFoundError (pkg-config ran and does not
\* know 'cbc'), or raises another error (pkg-config could not be run); the
\* handler names PackageNotFoundError only.
S35_Parse ==
  /\ pc = "s35"
  /\ \/ /\ \E r \in PkgResults :
             /\ cbc_pc' = r
             /\ shist' = [shist EXCEPT !.parse = "ok", !.parsed = r]
        /\ Goto("s40")
     \/ /\ cbc_pc' = FallbackPc
        /\ shist' = [shist EXCEPT !.parse = "PackageNotFoundError"]
        /\ Goto("s40")
     \/ /\ UNCHANGED cbc_pc
        /\ shist' = [shist EXCEPT !.parse = "tool_unavailable"]
        /\ Uncaught
  /\ UNCHANGED <<command, sage_incl, cbc_libs, cbc_library_dirs,
                 cbc_include_dirs, ext_modules, compile_time_env, errno,
                 checkVars>>

\* lines 40-41: if cbc_pc: print("Using pkgconfig: ...", file=sys.stderr)
S40_Print ==
  /\ pc = "s40"
  /\ IF DOMAIN cbc_pc # {} THEN PrintGoto("Using pkgconfig", "s42")
                            ELSE Goto("s42")
  /\ UNCHANGED <<checkVars, setupVars>>

\* line 42: cbc_libs = cbc_pc['libraries']
S42_Libs ==
  /\ pc = "s42"
  /\ cbc_libs' = DictValue(cbc_pc, "libraries")
  /\ cbc_pc' = DictTouch(cbc_pc, "libraries")
  /\ Goto("s43")
  /\ UNCHANGED <<command, sage_incl, cbc_library_dirs, cbc_include_dirs,
                 ext_modules, compile_time_env, errno, shist, checkVars>>

\* line 43: cbc_library_dirs = cbc_pc['library_dirs']
S43_LibraryDirs ==
  /\ pc = "s43"
  /\ cbc_library_dirs' = DictValue(cbc_pc, "library_dirs")
  /\ cbc_pc' = DictTouch(cbc_pc, "library_dirs")
  /\ Goto("s44")
  /\ UNCHANGED <<command, sage_incl, cbc_libs, cbc_include_dirs,
                 ext_modules, compile_time_env, errno, shist, checkVars>>

\* line 44: cbc_include_dirs = cbc_pc['include_dirs']
S44_IncludeDirs ==
  /\ pc = "s44"
  /\ cbc_include_dirs' = DictValue(cbc_pc, "include_dirs")
  /\ cbc_pc' = DictTouch(cbc_pc, "include_dirs")
  /\ Goto("s47")
  /\ UNCHANGED <<command, sage_incl, cbc_libs, cbc_library_dirs,
                 ext_modules, compile_time_env, errno, shist, checkVars>>

\* lines 47-54: ext_modules = [Extension(...)]
S47_ExtModules ==
  /\ pc = "s47"
  /\ ext_modules' = <<Extension(cbc_libs, sage_incl, cbc_include_dirs,
                                 cbc_library_dirs)>>
  /\ Goto("s59")
  /\ UNCHANGED <<command, sage_incl, cbc_pc, cbc_libs, cbc_library_dirs,
                 cbc_include_dirs, compile_time_env, errno, shist, checkVars>>

\* lines 59-60: compile_time_env = {...: False, ...: False}
S59_CompileTimeEnv ==
  /\ pc = "s59"
  /\ compile_time_env' = [HAVE_SAGE_CPYTHON_STRING |-> FALSE,
                          HAVE_ADD_COL_UNTYPED_ARGS |-> FALSE]
  /\ Goto("s62")
  /\ UNCHANGED <<command, sage_incl, cbc_pc, cbc_libs, cbc_library_dirs,
                 cbc_include_dirs, ext_modules, errno, shist, checkVars>>

\* (variant: the import is not guarded)
S62_ProbeString_Unguarded ==
  /\ pc = "s62"
  /\ \/ /\ PrintGoto("Checking whether HAVE_SAGE_CPYTHON_STRING...", "s70")
        /\ compile_time_env' =
             [compile_time_env EXCEPT !.HAVE_SAGE_CPYTHON_STRING = TRUE]
        /\ shist' = [shist EXCEPT !.probe1 = "ok"]
     \/ /\ PrintUncaught("Checking whether HAVE_SAGE_CPYTHON_STRING...")
        /\ UNCHANGED compile_time_env
        /\ shist' = [shist EXCEPT !.probe1 = "ImportError"]
  /\ UNCHANGED <<command, sage_incl, cbc_pc, cbc_libs, cbc_library_dirs,
                 cbc_include_dirs, ext_modules, errno, checkVars>>

\* lines 62-67: print; try: import sage.cpython.string; flag = True
\*              except ImportError: pass
S62_ProbeString ==
  /\ pc = "s62"
  /\ PrintGoto("Checking whether HAVE_SAGE_CPYTHON_STRING...", "s70")
  /\ \/ /\ compile_time_env' =
             [compile_time_env EXCEPT !.HAVE_SAGE_CPYTHON_STRING = TRUE]
        /\ shist' = [shist EXCEPT !.probe1 = "ok"]
     \/ /\ UNCHANGED compile_time_env
        /\ shist' = [shist EXCEPT !.probe1 = "ImportError"]
  /\ UNCHANGED <<command, sage_incl, cbc_pc, cbc_libs, cbc_library_dirs,
                 cbc_include_dirs, ext_modules, errno, checkVars>>

\* (variant: a successful probe sets the other flag)
S70_ProbeAddCol_WrongKey ==
  /\ pc = "s70"
  /\ \/ /\ PrintGoto("Checking whether HAVE_ADD_COL_UNTYPED_ARGS...", "s81")
        /\ compile_time_env' =
             [compile_time_env EXCEPT !.HAVE_SAGE_CPYTHON_STRING = TRUE]
        /\ shist' = [shist EXCEPT !.probe2 = "ok"]
     \/ /\ PrintGoto("Checking whether HAVE_ADD_COL_UNTYPED_ARGS...", "s81")
        /\ UNCHANGED compile_time_env
        /\ shist' = [shist EXCEPT !.probe2 = "CompileError"]
     \/ /\ PrintUncaught("Checking whether HAVE_ADD_COL_UNTYPED_ARGS...")
        /\ UNCHANGED compile_time_env
        /\ shist' = [shist EXCEPT !.probe2 = "error"]
  /\ UNCHANGED <<command, sage_incl, cbc_pc, cbc_libs, cbc_library_dirs,
                 cbc_include_dirs, ext_modules, errno, checkVars>>

\* lines 70-79: print; try: cythonize(Extension('check_add_col_untyped_args',
\*              ...)); flag = True   except CompileError: pass
\* Any other exception of cythonize (the probe source is missing, ...) is
\* not handled.
S70_ProbeAddCol ==
  /\ pc = "s70"
  /\ \/ /\ PrintGoto("Checking whether HAVE_ADD_COL_UNTYPED_ARGS...", "s81")
        /\ compile_time_env' =
             [compile_time_env EXCEPT !.HAVE_ADD_COL_UNTYPED_ARGS = TRUE]
        /\ shist' = [shist EXCEPT !.probe2 = "ok"]
     \/ /\ PrintGoto("Checking whether HAVE_ADD_COL_UNTYPED_ARGS...", "s81")
        /\ UNCHANGED compile_time_env
        /\ shist' = [shist EXCEPT !.probe2 = "CompileError"]
     \/ /\ PrintUncaught("Checking whether HAVE_ADD_COL_UNTYPED_ARGS...")
        /\ UNCHANGED compile_time_env
        /\ shist' = [shist EXCEPT !.probe2 = "error"]
  /\ UNCHANGED <<command, sage_incl, cbc_pc, cbc_libs, cbc_library_dirs,
                 cbc_include_dirs, ext_modules, errno, checkVars>>

\* line 81: print("Using compile_time_env: ...", file=sys.stderr)
S81_Print ==
  /\ pc = "s81"
  /\ PrintGoto("Using compile_time_env", "s83")
  /\ UNCHANGED <<checkVars, setupVars>>

\* lines 83-118, the arguments of setup(): readfile("VERSION"),
\* readfile("README.md"), then cythonize(ext_modules, include_path=sys.path,
\* compile_time_env=compile_time_env).  Neither is guarded.
S83_SetupArgs ==
  /\ pc = "s83"
  /\ \/ /\ Uncaught
        /\ UNCHANGED shist
     \/ /\ Uncaught
        /\ shist' = [shist EXCEPT !.final_env = compile_time_env,
                                  !.final_ext = ext_modules]
     \/ /\ Goto("s83call")
        /\ shist' = [shist EXCEPT !.final_env = compile_time_env,
                                  !.final_ext = ext_modules]
  /\ UNCHANGED <<command, sage_incl, cbc_pc, cbc_libs, cbc_library_dirs,
                 cbc_include_dirs, ext_modules, compile_time_env, errno,
                 checkVars>>

\* lines 83-118, the call setup(..., cmdclass={'test': SageTest}): runs the
\* command of the command line; 'test' ends in SageTest.run_tests.  A
\* command that fails makes setup() exit with status 1.
S83_Setup ==
  /\ pc = "s83call"
  /\ shist' = [shist EXCEPT !.setup = @ + 1]
  /\ \/ SysExit(1)
     \/ IF command = "test" THEN Goto("s22") ELSE Goto("s119")
  /\ UNCHANGED <<command, sage_incl, cbc_pc, cbc_libs, cbc_library_dirs,
                 cbc_include_dirs, ext_modules, compile_time_env, errno,
                 checkVars>>

\* line 22: errno = os.system("PYTHONPATH=`pwd` sage -t ...")
S22_System ==
  /\ pc = "s22"
  /\ errno' \in OsStatus
  /\ shist' = [shist EXCEPT !.system = @ + 1]
  /\ Goto("s23")
  /\ UNCHANGED <<command, sage_incl, cbc_pc, cbc_libs, cbc_library_dirs,
                 cbc_include_dirs, ext_modules, compile_time_env, checkVars>>

\* (variant: only a positive status is treated as a failure)
S23_CheckErrno_Positive ==
  /\ pc = "s23"
  /\ IF errno > 0 THEN SysExit(1) ELSE Goto("s119")
  /\ UNCHANGED <<checkVars, setupVars>>

\* lines 23-24: if errno != 0: sys.exit(1)   (else run_tests returns)
S23_CheckErrno ==
  /\ pc = "s23"
  /\ IF errno # 0 THEN SysExit(1) ELSE Goto("s119")
  /\ UNCHANGED <<checkVars, setupVars>>

\* setup() returned: end of setup.py, the interpreter exits with status 0
S119_End ==
  /\ pc = "s119"
  /\ SysExit(0)
  /\ UNCHANGED <<checkVars, setupVars>>

SetupNext ==
  \/ S06_Imports \/ S32_ImportPkgconfig \/ S35_Parse \/ S40_Print
  \/ S42_Libs \/ S43_LibraryDirs \/ S44_IncludeDirs \/ S47_ExtModules
  \/ S59_CompileTimeEnv \/ S62_ProbeString \/ S70_ProbeAddCol \/ S81_Print
  \/ S83_SetupArgs \/ S83_Setup \/ S22_System \/ S23_CheckErrno \/ S119_End

Next == CheckNext \/ SetupNext

Spec == Init /\ [][Next]_vars

\* =============================================================== properties
\* every occurrence of b in the sequence q has an occurrence of a before it
Precedes(a, b, q) ==
  \A i \in 1..Len(q) : q[i] = b => \E j \in 1..(i - 1) : q[j] = a

\* ---------------------------------------------------------------------- C1
\* C1: check_sage_testsuite.py exits with code 0 if and only if the
\* verification run (the doctest of the script itself) returned 0 and the run
\* of the curated subset returned 0; every other execution ends nonzero.
C1_ExitZeroIffBothRunsPass ==
  (script = "check_sage_testsuite.py" /\ pc = "done") =>
     /\ exitcode = 0 <=> (hist.verify.result = 0 /\ hist.subset.result = 0)
     /\ exitcode >= 0

C1_Witness ==
  /\ script = "check_sage_testsuite.py" /\ pc = "done" /\ exitcode = 0
  /\ hist.verify.n = 1 /\ hist.verify.result = 0
  /\ hist.subset.n = 1 /\ hist.subset.result = 0

\* ---------------------------------------------------------------------- C2
\* C2 as stated: whenever the override did not take effect (also when a
\* statement of lines 11-15 fails) the exit code is 2, and the exit code is 1
\* exactly when the override took effect and the subset run failed.
C2_Original ==
  (script = "check_sage_testsuite.py" /\ pc = "done") =>
     /\ BackendInUse # "ours" => exitcode = 2
     /\ exitcode = 1 <=> (BackendInUse = "ours" /\ hist.subset.n = 1
                          /\ hist.subset.result # 0)

\* C2 amended: the exit code is 2 exactly when the verification run returned
\* nonzero, which it does whenever default_mip_solver('COIN') returned without
\* the override taking effect; the exit code is 1 exactly when the
\* verification returned 0 and the subset run returned nonzero, or when a
\* statement raised an exception (none is caught); a run that started the
\* subset never exits with 2.
C2_ExitCodeByCause ==
  (script = "check_sage_testsuite.py" /\ pc = "done") =>
     /\ exitcode = 2 <=> (raisedAt = "none" /\ hist.verify.result > 0)
     /\ exitcode = 1 <=> \/ raisedAt # "none"
                         \/ hist.verify.result = 0 /\ hist.subset.result > 0
     /\ (raisedAt = "none" /\ BackendInUse # "ours") => exitcode = 2
     /\ hist.subset.n > 0 => exitcode # 2

C2_Witness ==
  /\ script = "check_sage_testsuite.py" /\ pc = "done" /\ exitcode = 2
  /\ hist.dms = 1 /\ raisedAt = "none" /\ BackendInUse # "ours"

\* ---------------------------------------------------------------------- C3
\* C3 as stated: neither an unavailable query tool nor a missing package
\* 'cbc' aborts the build; both continue with the fallback list ['Cbc'].
C3_Original ==
  shist.parse \in {"tool_unavailable", "PackageNotFoundError"} =>
     /\ raisedAt # "s35"
     /\ DictValue(cbc_pc, "libraries") = <<"Cbc">>

\* C3 amended: when the query reports that package 'cbc' is not found
\* (PackageNotFoundError) the build does not abort there: it continues with
\* the fallback list ['Cbc'], and setup() is called with it unless a later
\* statement raises; when the query cannot be performed (any other error, as
\* for an unavailable tool) the exception is not caught and the build aborts
\* with status 1 before setup() is called.
C3_FallbackOnlyWhenPackageNotFound ==
  /\ shist.parse = "PackageNotFoundError" =>
        /\ raisedAt # "s35"
        /\ DictValue(cbc_pc, "libraries") = <<"Cbc">>
        /\ pc \notin {"s40", "s42"} => cbc_libs = <<"Cbc">>
        /\ ext_modules # <<>> => ext_modules[1].libraries = <<"Cbc">>
        /\ (pc = "done" /\ raisedAt = "none") =>
              /\ shist.setup = 1
              /\ shist.final_ext[1].libraries = <<"Cbc">>
  /\ shist.parse = "tool_unavailable" =>
        /\ pc = "done" /\ exitcode = 1 /\ raisedAt = "s35"
        /\ shist.setup = 0 /\ cbc_libs = <<>> /\ ext_modules = <<>>

C3_Witness ==
  /\ shist.parse = "PackageNotFoundError" /\ shist.setup = 1
  /\ shist.final_ext[1].libraries = <<"Cbc">>

\* ---------------------------------------------------------------------- C4
\* C4: the compile_time_env handed to the final cythonize call has
\* HAVE_SAGE_CPYTHON_STRING true iff the import probe succeeded and
\* HAVE_ADD_COL_UNTYPED_ARGS true iff the cythonize probe succeeded, each
\* decided by its own probe.
C4_FlagsMatchProbes ==
  DOMAIN shist.final_env # {} =>
     /\ shist.final_env.HAVE_SAGE_CPYTHON_STRING = (shist.probe1 = "ok")
     /\ shist.final_env.HAVE_ADD_COL_UNTYPED_ARGS = (shist.probe2 = "ok")
     /\ shist.probe1 \in {"ok", "ImportError"}
     /\ shist.probe2 \in {"ok", "CompileError"}

C4_Witness ==
  /\ shist.setup = 1
  /\ shist.probe1 = "ImportError" /\ shist.probe2 = "ok"
  /\ shist.final_env.HAVE_ADD_COL_UNTYPED_ARGS
  /\ ~ shist.final_env.HAVE_SAGE_CPYTHON_STRING

\* ---------------------------------------------------------------------- C5
\* C5: an ImportError of the first probe or a CompileError of the second is
\* not terminal: the flag of the failed probe stays False, the other probe
\* is performed, and the run ends only in setup() or in a later statement.
C5_ProbeFailureNotTerminal ==
  /\ shist.probe1 = "ImportError" =>
        /\ raisedAt # "s62"
        /\ ~ compile_time_env.HAVE_SAGE_CPYTHON_STRING
        /\ pc # "s70" => shist.probe2 # "none"
  /\ shist.probe2 = "CompileError" =>
        /\ raisedAt # "s70"
        /\ ~ compile_time_env.HAVE_ADD_COL_UNTYPED_ARGS
        /\ shist.probe1 # "none"
        /\ pc = "done" => (shist.setup = 1 \/ raisedAt = "s83")

C5_Witness ==
  /\ shist.probe1 = "ImportError" /\ shist.probe2 = "CompileError"
  /\ shist.setup = 1
  /\ shist.final_env = [HAVE_SAGE_CPYTHON_STRING |-> FALSE,
                        HAVE_ADD_COL_UNTYPED_ARGS |-> FALSE]

\* ---------------------------------------------------------------------- C6
\* C6: SageTest.run_tests runs the doctest command exactly once; a nonzero
\* status ends the process with code 1, status 0 lets run_tests return
\* without exiting.
C6_RunTestsExit ==
  script = "setup.py" =>
     /\ shist.system <= 1
     /\ pc = "s23" => shist.system = 1
     /\ (command = "test" /\ pc = "s119") => shist.system = 1
     /\ (shist.system = 1 /\ pc # "s23") =>
           IF errno # 0
             THEN pc = "done" /\ exitcode = 1
             ELSE \/ pc = "s119" /\ exitcode = -1
                  \/ pc = "done" /\ exitcode = 0

C6_Witness ==
  /\ script = "setup.py" /\ pc = "done" /\ shist.system = 1
  /\ errno < 0 /\ exitcode = 1

\* ---------------------------------------------------------------------- C7
\* C7: the registry entry and the package attribute are assigned exactly
\* once, before default_mip_solver('COIN') and before any doctest run, and
\* from then on both refer to this package's coin_backend.
C7_RegistryPatchedOnce ==
  script = "check_sage_testsuite.py" =>
     /\ hist.patch <= 1
     /\ hist.patch = 0 => (sys_modules = "absent" /\ backends_attr = "absent")
     /\ hist.patch = 1 => (sys_modules = "ours" /\ backends_attr = "ours")
     /\ Precedes("patch", "dms", hist.order)
     /\ Precedes("patch", "verify", hist.order)
     /\ Precedes("patch", "subset", hist.order)
     /\ pc \notin {"c11", "c12"} /\ raisedAt # "c11" => hist.patch = 1

C7_Witness ==
  /\ pc = "done" /\ hist.patch = 1 /\ hist.dms = 1
  /\ hist.verify.n = 1 /\ hist.subset.n = 1
  /\ sys_modules = "ours" /\ backends_attr = "ours"

\* ---------------------------------------------------------------------- C8
\* C8: forcing the default solver precedes the verification run, which
\* precedes the subset run; each run is started at most once; the subset run
\* is started only after the verification returned 0.
C8_FixedOrderNoRetry ==
  script = "check_sage_testsuite.py" =>
     /\ Precedes("dms", "verify", hist.order)
     /\ Precedes("verify", "subset", hist.order)
     /\ hist.dms <= 1 /\ hist.verify.n <= 1 /\ hist.subset.n <= 1
     /\ hist.subset.n = 1 => (hist.verify.n = 1 /\ hist.verify.result = 0)
     /\ hist.verify.result > 0 /\ pc \notin {"c38"} =>
           (pc = "done" /\ hist.subset.n = 0)

C8_Witness ==
  /\ pc = "done" /\ hist.verify.n = 1 /\ hist.verify.result > 0
  /\ hist.subset.n = 0 /\ hist.order = <<"patch", "dms", "chdir", "glob", "verify">>

\* ---------------------------------------------------------------------- C9
\* C9: abs_file is the script's name resolved against the directory of
\* invocation; the glob patterns are expanded in the host library's sage
\* directory, after the change; the verification run, started after the
\* change, targets the script in the directory of invocation.
C9_PathsResolved ==
  script = "check_sage_testsuite.py" =>
     /\ abs_file # <<>> => abs_file = hist.cwd0 \o ScriptName
     /\ files # <<>> =>
           /\ hist.globcwd = SageDir
           /\ Precedes("chdir", "glob", hist.order)
           /\ SubSeq(files, 1, Len(CuratedFiles)) = CuratedFiles
           /\ {files[i] : i \in (Len(CuratedFiles) + 1)..Len(files)} =
                {<<"numerical", f>> :
                    f \in {g \in fs[SageDir] : Suffix(g) \in {"py", "pyx"}}}
     /\ hist.verify.n = 1 =>
           /\ Precedes("chdir", "verify", hist.order)
           /\ cwd = SageDir
           /\ hist.verify.targets = {hist.cwd0 \o ScriptName}
     /\ hist.subset.n = 1 =>
           \A t \in hist.subset.targets :
              Len(t) > Len(SageDir) /\ SubSeq(t, 1, Len(SageDir)) = SageDir

C9_Witness ==
  /\ hist.verify.n = 1 /\ hist.cwd0 = RepoDir
  /\ fs[RepoDir] = {"mip.py"} /\ "mip.py" \notin fs[SageDir]
  /\ Len(files) > Len(CuratedFiles)
  /\ hist.verify.targets = {<<"/", "repo", "check_sage_testsuite.py">>}

\* --------------------------------------------------------------------- C10
\* C10: after the fallback the extension has libraries ['Cbc'], no
\* library_dirs and exactly the host's include directories; after a
\* successful query its libraries, library_dirs and solver include
\* directories are the query's values, host include directories first.
C10_ExtensionConfigured ==
  ext_modules # <<>> =>
     /\ Len(ext_modules) = 1
     /\ shist.parse = "PackageNotFoundError" =>
           /\ cbc_library_dirs = <<>> /\ cbc_include_dirs = <<>>
           /\ ext_modules[1].libraries = <<"Cbc">>
           /\ ext_modules[1].library_dirs = <<>>
           /\ ext_modules[1].include_dirs = sage_incl
     /\ shist.parse = "ok" =>
           /\ ext_modules[1].libraries = DictValue(shist.parsed, "libraries")
           /\ ext_modules[1].library_dirs = DictValue(shist.parsed, "library_dirs")
           /\ ext_modules[1].include_dirs =
                 sage_incl \o DictValue(shist.parsed, "include_dirs")

C10_Witness ==
  /\ shist.parse = "ok" /\ shist.setup = 1
  /\ shist.final_ext[1].libraries = <<"CbcSolver", "Cbc">>
  /\ shist.final_ext[1].library_dirs = <<"/opt/coin/lib">>
  /\ shist.final_ext[1].include_dirs =
        <<"/sage/include", "/numpy/include", "/opt/coin/include/coin">>

====
